---- MODULE Spec2Model ----
(***************************************************************************)
(* Model of tools_rag: the ToolsRAG hybrid retrieval engine                *)
(* (hybrid_tools_rag.py) on top of the ChromaStore wrapper (store.py).     *)
(*                                                                         *)
(* Conventions                                                             *)
(*  - A text is the sequence of its whitespace separated words.            *)
(*  - Floats in [0,1] (alpha, threshold, similarity) are integers in       *)
(*    hundredths; fused scores are compared as exact fractions.            *)
(*  - A Python value that a caller can inspect is a record with a "type"   *)
(*    field (NoneType, tuple, list).                                       *)
(*  - The chromadb collection is the sequence of its entries in insertion  *)
(*    order, which is the order Collection.get() lists them in.            *)
(*  - The model covers one ToolsRAG over a fresh "tools" collection, and    *)
(*    one ToolsSkills (skills.py), whose dict tools_by_name is the         *)
(*    sequence of its values in insertion order.                           *)
(***************************************************************************)
EXTENDS Integers, Sequences, FiniteSets, TLC

VARIABLES store, bm25, config, tools_by_name, lastOp, ret, err, pending

vars == <<store, bm25, config, tools_by_name, lastOp, ret, err, pending>>

(***************************************************************************)
(* Bounds of the exploration.                                              *)
(***************************************************************************)
MaxBatch == 1      \* every list up to this length is handed to a mutation
MaxK     == 2      \* largest k given as a call argument

(***************************************************************************)
(* Program constants (config.py defaults, in hundredths where float).      *)
(***************************************************************************)
DefaultAlpha     == 80
DefaultTopK      == 10
DefaultThreshold == 1

NoArg == -1        \* the Python None of an optional numeric argument

(***************************************************************************)
(* Python values seen by callers.                                          *)
(***************************************************************************)
PyNone == [type |-> "NoneType"]
PyList(s) == [type |-> "list", items |-> s]
PyTuple2(a, b) == [type |-> "tuple", items |-> <<a, b>>]
\* A dict is the sequence of its (key, value) pairs in insertion order.
PyDict(pairs) == [type |-> "dict", items |-> pairs]

\* The built-in len(); None has no len().
PyLen(v) == IF v.type = "NoneType" THEN -1 ELSE Len(v.items)

(***************************************************************************)
(* The tool records the exploration draws from.                            *)
(***************************************************************************)
WeatherV1 == [name |-> "get_weather", desc |-> <<"current", "weather">>,
              server |-> "weather-mcp"]
WeatherV2 == [name |-> "get_weather", desc |-> <<"weather", "forecast">>,
              server |-> "weather-mcp"]
Email     == [name |-> "send_email", desc |-> <<"send", "email">>,
              server |-> "communication-mcp"]
Calc      == [name |-> "calculate", desc |-> <<"math">>]
NoDesc    == [name |-> "broken_tool", server |-> "weather-mcp"]
\* A record whose name is a blank and whose description is empty: its text
\* holds no token.
Blank     == [name |-> " ", desc |-> <<>>]

ToolPool == {WeatherV1, WeatherV2, Email, Calc}
\* The names remove_tools is called with; nothing is ever stored under the
\* last one.
UnknownName == "unknown_tool"
RemovableNames == {"get_weather", "calculate", UnknownName}
WellFormed(t) == {"name", "desc"} \subseteq DOMAIN t

Queries == { <<"weather">>, <<"send", "email", "weather">>, <<"xyz">> }

SeqsUpTo(S, n) == UNION { [1..m -> S] : m \in 0..n }

\* The lists handed to populate_tools and add_tools: every list of well-formed
\* records up to the bound, and some longer ones (two new records, one name
\* twice, a record without "desc").
Batches ==
    SeqsUpTo(ToolPool, MaxBatch)
        \cup {<<Email, Calc>>, <<WeatherV1, WeatherV2>>, <<NoDesc>>,
              <<Email, NoDesc>>}

\* The lists handed to remove_tools.
NameLists ==
    SeqsUpTo(RemovableNames, MaxBatch)
        \cup {<<"get_weather", "calculate">>, <<"get_weather", UnknownName>>}

(***************************************************************************)
(* json.dumps / json.loads on a tool dict.                                 *)
(***************************************************************************)
JsonDumps(t) == <<"json", t>>
JsonLoads(s) == s[2]

(***************************************************************************)
(* ToolsRAG._build_text and str.split.                                     *)
(***************************************************************************)
BuildText(t) == <<t.name>> \o t.desc
Split(text) == SelectSeq(text, LAMBDA w : w \notin {"", " "})

(***************************************************************************)
(* SentenceTransformer.encode: a fixed, deterministic table of unit        *)
(* vectors (scaled by 10, so that a dot product is a cosine in hundredths).*)
(***************************************************************************)
Encode(text) ==
    CASE text = BuildText(WeatherV1) -> <<10, 0>>
      [] text = BuildText(WeatherV2) -> <<8, 6>>
      [] text = BuildText(Email)     -> <<0, 10>>
      [] text = BuildText(Calc)      -> <<6, 8>>
      [] text = <<"weather">>        -> <<10, 0>>
      [] text = <<"send", "email", "weather">> -> <<6, 8>>
      [] OTHER                       -> <<0, -10>>

(***************************************************************************)
(* chromadb Collection, as ChromaStore uses it.                            *)
(***************************************************************************)
Ids(coll) == [i \in DOMAIN coll |-> coll[i].id]
IdSet(coll) == {coll[i].id : i \in DOMAIN coll}
HasDuplicates(ids) == \E i, j \in DOMAIN ids : i < j /\ ids[i] = ids[j]

\* Faulty variant of StoreAdd: writes every entry, also under an id that is
\* already in the collection.
StoreAddAppend(coll, entries) ==
    IF entries = <<>> THEN [err |-> "ValueError", coll |-> coll]
    ELSE IF HasDuplicates(Ids(entries))
    THEN [err |-> "DuplicateIDError", coll |-> coll]
    ELSE [err |-> "none", coll |-> coll \o entries]

\* Faulty variant of StoreAdd: does not reject a batch that names an id twice.
StoreAddNoBatchCheck(coll, entries) ==
    IF entries = <<>> THEN [err |-> "ValueError", coll |-> coll]
    ELSE [err |-> "none",
          coll |-> coll \o SelectSeq(entries,
                              LAMBDA e : e.id \notin IdSet(coll))]

\* ChromaStore.add -> Collection.add: an empty batch and a batch that names
\* an id twice are rejected before anything is written; an id that is already
\* in the collection is skipped (add is not upsert).
StoreAdd(coll, entries) ==
    IF entries = <<>> THEN [err |-> "ValueError", coll |-> coll]
    ELSE IF HasDuplicates(Ids(entries))
    THEN [err |-> "DuplicateIDError", coll |-> coll]
    ELSE [err |-> "none",
          coll |-> coll \o SelectSeq(entries,
                              LAMBDA e : e.id \notin IdSet(coll))]

\* Faulty variant of StoreDelete: an id that is not in the collection is an
\* error.
StoreDeleteStrict(coll, ids) ==
    IF ids = <<>> \/ \E i \in DOMAIN ids : ids[i] \notin IdSet(coll)
    THEN [err |-> "ValueError", coll |-> coll]
    ELSE [err |-> "none",
          coll |-> SelectSeq(coll,
                      LAMBDA e : \A i \in DOMAIN ids : ids[i] # e.id)]

\* ChromaStore.delete -> Collection.delete(ids): unknown ids are ignored; an
\* empty id list without a filter is rejected.
StoreDelete(coll, ids) ==
    IF ids = <<>> THEN [err |-> "ValueError", coll |-> coll]
    ELSE [err |-> "none",
          coll |-> SelectSeq(coll,
                      LAMBDA e : \A i \in DOMAIN ids : ids[i] # e.id)]

\* ChromaStore.get_all -> Collection.get()
GetAll(coll) ==
    [ids |-> Ids(coll),
     documents |-> [i \in DOMAIN coll |-> coll[i].document],
     metadatas |-> [i \in DOMAIN coll |-> coll[i].metadata]]

(***************************************************************************)
(* BM25Okapi: the ranker keeps the tokenized corpus it was built from.     *)
(***************************************************************************)
NoRanker == [built |-> FALSE, corpus |-> <<>>]
BM25Okapi(corpus) == [built |-> TRUE, corpus |-> corpus]

\* BM25Okapi.__init__ divides by the number of documents and by the number of
\* distinct words of the corpus: a corpus without any word raises
\* ZeroDivisionError.
BM25OkapiRaises(corpus) == \A i \in DOMAIN corpus : corpus[i] = <<>>

\* ToolsRAG._rebuild_bm25
RebuildBm25(coll) ==
    LET all_data == GetAll(coll) IN
    IF all_data.documents = <<>> THEN NoRanker
    ELSE BM25Okapi([i \in DOMAIN all_data.documents |->
                        Split(all_data.documents[i])])

\* ToolsRAG._rebuild_bm25 raises: the store is not empty and none of its
\* documents holds a word.
RebuildRaises(coll) ==
    /\ GetAll(coll).documents # <<>>
    /\ BM25OkapiRaises([i \in DOMAIN coll |-> Split(coll[i].document)])

(***************************************************************************)
(* ToolsRAG.populate_tools / add_tools: build texts (KeyError on a record  *)
(* without name or desc), store.add, then rebuild the ranker.              *)
(***************************************************************************)
Entry(t) ==
    [id |-> t.name, document |-> BuildText(t),
     embedding |-> Encode(BuildText(t)),
     metadata |-> [tool_json |-> JsonDumps(t)]]

Upsert(coll, ranker, tools) ==
    IF \E i \in DOMAIN tools : ~WellFormed(tools[i])
    THEN [err |-> "KeyError", coll |-> coll, bm25 |-> ranker]
    ELSE LET r == StoreAdd(coll, [i \in DOMAIN tools |-> Entry(tools[i])]) IN
         IF r.err # "none"
         THEN [err |-> r.err, coll |-> coll, bm25 |-> ranker]
         ELSE IF RebuildRaises(r.coll)
         THEN [err |-> "ZeroDivisionError", coll |-> r.coll, bm25 |-> ranker]
         ELSE [err |-> "none", coll |-> r.coll, bm25 |-> RebuildBm25(r.coll)]

\* The mutation that has updated the store and not yet rebuilt the ranker:
\* its name, its arguments and the store it started from; NoCall when every
\* mutation that was started has finished.
NoCall == [op |-> "none"]
Pending(name, batch, names, coll) ==
    [op |-> name, batch |-> batch, names |-> names, before |-> coll]

\* The record of the last call: its name and arguments, and whether the call
\* before it was the same call with the same arguments.
Call(name, batch, names, query, k, alpha, threshold) ==
    LET c == [op |-> name, batch |-> batch, names |-> names, query |-> query,
              k |-> k, alpha |-> alpha, threshold |-> threshold,
              again |-> FALSE]
    IN [c EXCEPT !.again = ([lastOp EXCEPT !.again = FALSE] = c)]

Op(name, batch, names) == Call(name, batch, names, <<>>, NoArg, NoArg, NoArg)

\* Faulty variant of PopulateTools: loads the records into an emptied store.
PopulateToolsReplace(tools_list) ==
    LET r == Upsert(<<>>, NoRanker, tools_list) IN
    /\ store' = IF r.err = "none" THEN r.coll ELSE store
    /\ bm25' = IF r.err = "none" THEN r.bm25 ELSE bm25
    /\ err' = r.err
    /\ ret' = PyNone
    /\ lastOp' = Op("populate_tools", tools_list, <<>>)
    /\ UNCHANGED <<pending, config, tools_by_name>>

PopulateTools(tools_list) ==
    LET r == Upsert(store, bm25, tools_list) IN
    /\ store' = r.coll
    /\ bm25' = r.bm25
    /\ err' = r.err
    /\ ret' = PyNone
    /\ lastOp' = Op("populate_tools", tools_list, <<>>)
    /\ UNCHANGED <<pending, config, tools_by_name>>

\* Faulty variant of AddTools: the ranker is not rebuilt after store.add.
AddToolsNoRebuild(new_tools) ==
    LET r == Upsert(store, bm25, new_tools) IN
    /\ store' = r.coll
    /\ bm25' = bm25
    /\ err' = r.err
    /\ ret' = PyNone
    /\ lastOp' = Op("add_tools", new_tools, <<>>)
    /\ UNCHANGED <<pending, config, tools_by_name>>

AddTools(new_tools) ==
    LET r == Upsert(store, bm25, new_tools) IN
    /\ store' = r.coll
    /\ bm25' = r.bm25
    /\ err' = r.err
    /\ ret' = PyNone
    /\ lastOp' = Op("add_tools", new_tools, <<>>)
    /\ UNCHANGED <<pending, config, tools_by_name>>

\* Faulty variant of RemoveTools: the ranker is not rebuilt after store.delete.
RemoveToolsNoRebuild(tool_names) ==
    LET r == StoreDelete(store, tool_names) IN
    /\ store' = r.coll
    /\ bm25' = bm25
    /\ err' = r.err
    /\ ret' = PyNone
    /\ lastOp' = Op("remove_tools", <<>>, tool_names)
    /\ UNCHANGED <<pending, config, tools_by_name>>

\* ToolsRAG.remove_tools
RemoveTools(tool_names) ==
    LET r == StoreDelete(store, tool_names) IN
    /\ store' = r.coll
    /\ bm25' = IF r.err = "none" /\ ~RebuildRaises(r.coll)
               THEN RebuildBm25(r.coll) ELSE bm25
    /\ err' = IF r.err = "none" /\ RebuildRaises(r.coll)
              THEN "ZeroDivisionError" ELSE r.err
    /\ ret' = PyNone
    /\ lastOp' = Op("remove_tools", <<>>, tool_names)
    /\ UNCHANGED <<pending, config, tools_by_name>>

(***************************************************************************)
(* Helpers: sorted(..., reverse=True) is stable, [:k] truncates.           *)
(***************************************************************************)
Min(a, b) == IF a < b THEN a ELSE b

Take(s, k) == SubSeq(s, 1, Min(k, Len(s)))

\* s sorted by descending keys[i], the key of s[i].
SortedDesc(s, keys) ==
    LET n == Len(s)
        pos == [i \in 1..n |->
                   1 + Cardinality({j \in 1..n :
                           \/ keys[j] > keys[i]
                           \/ keys[j] = keys[i] /\ j < i})]
    IN [p \in 1..n |-> s[CHOOSE i \in 1..n : pos[i] = p]]

RECURSIVE SumSeq(_)
SumSeq(s) == IF s = <<>> THEN 0 ELSE Head(s) + SumSeq(Tail(s))

MaxSeq(s) == CHOOSE m \in {s[i] : i \in DOMAIN s} :
                 \A i \in DOMAIN s : s[i] <= m

SeqSet(s) == {s[i] : i \in DOMAIN s}

\* The index of t in a sequence without repetitions, 0 when absent.
IndexOf(s, t) == IF t \in SeqSet(s) THEN CHOOSE i \in DOMAIN s : s[i] = t
                 ELSE 0

(***************************************************************************)
(* ChromaStore.search_with_scores: Collection.query orders by ascending    *)
(* cosine distance (entries at the same distance in insertion order) and   *)
(* returns at most k; similarity = 1 - distance.                           *)
(***************************************************************************)
Dot(u, v) == u[1] * v[1] + u[2] * v[2]
CosineDistance(u, v) == 100 - Dot(u, v)

\* Faulty variant of SearchWithScores: the number of results is not limited.
SearchWithScoresAll(coll, vector, k) ==
    LET near == [i \in DOMAIN coll |->
                    0 - CosineDistance(vector, coll[i].embedding)]
        hits == SortedDesc(coll, near)
    IN [ids |-> Ids(hits),
        similarities |-> [i \in DOMAIN hits |->
                             100 - CosineDistance(vector, hits[i].embedding)],
        metadatas |-> [i \in DOMAIN hits |-> hits[i].metadata]]

SearchWithScores(coll, vector, k) ==
    LET near == [i \in DOMAIN coll |->
                    0 - CosineDistance(vector, coll[i].embedding)]
        hits == Take(SortedDesc(coll, near), k)
        distances == [i \in DOMAIN hits |->
                         CosineDistance(vector, hits[i].embedding)]
    IN [ids |-> Ids(hits),
        similarities |-> [i \in DOMAIN hits |-> 100 - distances[i]],
        metadatas |-> [i \in DOMAIN hits |-> hits[i].metadata]]

(***************************************************************************)
(* BM25Okapi.get_scores: one raw score per document of the corpus the      *)
(* ranker was built from, in corpus order.  The score of a document is the *)
(* number of occurrences of the query's tokens in it.                      *)
(***************************************************************************)
TermFreq(doc, w) == Cardinality({p \in DOMAIN doc : doc[p] = w})

GetScores(ranker, tokens) ==
    [i \in DOMAIN ranker.corpus |->
        SumSeq([q \in DOMAIN tokens |-> TermFreq(ranker.corpus[i], tokens[q])])]

\* max_score, and the raw scores zipped with the names (zip stops at the
\* shorter of the two); a normalized score is raw / max_score.
ZipNormalized(tool_names, sparse_scores_raw) ==
    LET n == Min(Len(tool_names), Len(sparse_scores_raw))
        m == MaxSeq(sparse_scores_raw)
    IN [names |-> SubSeq(tool_names, 1, n),
        raw |-> SubSeq(sparse_scores_raw, 1, n),
        max_score |-> IF m > 0 THEN m ELSE 1]

\* ToolsRAG._retrieve_sparse_scores: the raw scores zipped with the ids the
\* store lists now, and the divisor that normalizes them.
RetrieveSparseScores(coll, ranker, query) ==
    IF ~ranker.built THEN [names |-> <<>>, raw |-> <<>>, max_score |-> 1]
    ELSE ZipNormalized(GetAll(coll).ids, GetScores(ranker, Split(query)))

\* sparse_scores.get(t, 0), as the numerator over max_score
SparseRaw(sp, t) == IF t \in SeqSet(sp.names) THEN sp.raw[IndexOf(sp.names, t)]
                    ELSE 0

(***************************************************************************)
(* ToolsRAG.retrieve_hybrid, step by step.                                 *)
(***************************************************************************)
EffK(cfg, k) == IF k # NoArg THEN k ELSE cfg.top_k
\* Faulty variant of EffAlpha: an argument of 0.0 counts as not given
\* (alpha or config.alpha).
EffAlphaTruthy(cfg, alpha) ==
    IF alpha # NoArg /\ alpha # 0 THEN alpha ELSE cfg.alpha

EffAlpha(cfg, alpha) == IF alpha # NoArg THEN alpha ELSE cfg.alpha
EffThreshold(cfg, threshold) ==
    IF threshold # NoArg THEN threshold ELSE cfg.threshold

\* Faulty variant of DenseNum: the first dense result gets 1 - 1/k.
DenseNumOneBased(dense_ids, k, t) ==
    IF t \in SeqSet(dense_ids) THEN k - IndexOf(dense_ids, t) ELSE 0

\* dense_scores.get(t, 0) = 1 - i/k, as the numerator over k
DenseNum(dense_ids, k, t) ==
    IF t \in SeqSet(dense_ids) THEN k - (IndexOf(dense_ids, t) - 1) ELSE 0

SparseIds(sp, k) ==
    Take(SortedDesc(sp.names,
                    [i \in DOMAIN sp.names |-> SparseRaw(sp, sp.names[i])]), k)

\* set(dense_ids + sparse_ids)
Candidates(dense_ids, sparse_ids) == SeqSet(dense_ids) \cup SeqSet(sparse_ids)

\* The orders in which iterating a set of str can yield its members (the
\* order follows the process's string hashing).
IterOrders(S) ==
    {o \in [1..Cardinality(S) -> S] : \A i, j \in DOMAIN o :
                                          o[i] = o[j] => i = j}

\* fused[t] times 100 * k * max_score
FusedNum(dense_ids, sp, k, alpha, t) ==
    alpha * DenseNum(dense_ids, k, t) * sp.max_score
        + (100 - alpha) * SparseRaw(sp, t) * k

\* Faulty variant of FinalList: the ranked union is not cut to k.
FinalListNoCut(dense_ids, sp, k, alpha, order) ==
    SortedDesc(order,
               [i \in DOMAIN order |->
                   FusedNum(dense_ids, sp, k, alpha, order[i])])

FinalList(dense_ids, sp, k, alpha, order) ==
    Take(SortedDesc(order,
                    [i \in DOMAIN order |->
                        FusedNum(dense_ids, sp, k, alpha, order[i])]), k)

\* tool.pop("server", None)
PopServer(tool) == [f \in DOMAIN tool \ {"server"} |-> tool[f]]

ServerOrder == <<"communication-mcp", "weather-mcp">>
SortedServers(S) == SelectSeq(ServerOrder, LAMBDA s : s \in S)

\* similarity_lookup.get(name, 0.0)
SimilarityLookup(dense, name) ==
    IF name \in SeqSet(dense.ids)
    THEN dense.similarities[IndexOf(dense.ids, name)]
    ELSE 0

\* Faulty variant of PassesFilter: the comparison is turned around.
PassesFilterReversed(dense, name, threshold) ==
    /\ SimilarityLookup(dense, name) <= threshold
    /\ name \in SeqSet(dense.ids)

\* Faulty variant of PassesFilter: a similarity equal to the threshold fails.
PassesFilterStrict(dense, name, threshold) ==
    /\ SimilarityLookup(dense, name) > threshold
    /\ name \in SeqSet(dense.ids)

\* sim >= threshold and name in metadata_lookup
PassesFilter(dense, name, threshold) ==
    /\ SimilarityLookup(dense, name) >= threshold
    /\ name \in SeqSet(dense.ids)

\* The threshold filter and the returned pair.
FilterAndShape(dense, final, threshold) ==
    LET Keep(name) == PassesFilter(dense, name, threshold)
        kept == SelectSeq(final, Keep)
        Tool(name) ==
            JsonLoads(dense.metadatas[IndexOf(dense.ids, name)].tool_json)
        tools_clean == [i \in DOMAIN kept |-> PopServer(Tool(kept[i]))]
        servers_set == {Tool(kept[i]).server :
                           i \in {j \in DOMAIN kept :
                                     "server" \in DOMAIN Tool(kept[j])}}
    IN PyTuple2(PyList(tools_clean), PyList(SortedServers(servers_set)))

DenseOf(coll, query, k) == SearchWithScores(coll, Encode(query), k)

\* Every list "final" can be, over the iteration orders of the candidate set.
FinalLists(dense_ids, sp, k, alpha) ==
    {FinalList(dense_ids, sp, k, alpha, order) :
        order \in IterOrders(Candidates(dense_ids, SparseIds(sp, k)))}

\* Faulty variant of RetrieveHybrid: "server" is popped from the stored
\* metadata of the records instead of from the copies json.loads returns.
RetrieveHybridPopsStored(query, k, alpha, threshold) ==
    /\ IF ~config.filter_tools
       THEN ret' = PyTuple2(PyNone, PyNone) /\ err' = "none"
       ELSE IF EffK(config, k) < 1
       THEN ret' = PyNone /\ err' = "ValueError"
       ELSE LET kk == EffK(config, k)
                aa == EffAlpha(config, alpha)
                th == EffThreshold(config, threshold)
            IN /\ \E dense \in {DenseOf(store, query, kk)},
                     sp \in {RetrieveSparseScores(store, bm25, query)} :
                      \E final \in FinalLists(dense.ids, sp, kk, aa) :
                          ret' = FilterAndShape(dense, final, th)
               /\ err' = "none"
    /\ store' = [i \in DOMAIN store |->
                    [store[i] EXCEPT !.metadata.tool_json =
                        JsonDumps(PopServer(JsonLoads(@)))]]
    /\ lastOp' = Call("retrieve_hybrid", <<>>, <<>>, query, k, alpha, threshold)
    /\ UNCHANGED <<pending, bm25, config, tools_by_name>>

\* Collection.query rejects n_results < 1 (ValueError; TypeError in older
\* chromadb releases) before anything else is computed.
RetrieveHybrid(query, k, alpha, threshold) ==
    /\ IF ~config.filter_tools
       THEN ret' = PyTuple2(PyNone, PyNone) /\ err' = "none"
       ELSE IF EffK(config, k) < 1
       THEN ret' = PyNone /\ err' = "ValueError"
       ELSE LET kk == EffK(config, k)
                aa == EffAlpha(config, alpha)
                th == EffThreshold(config, threshold)
            IN /\ \E dense \in {DenseOf(store, query, kk)},
                     sp \in {RetrieveSparseScores(store, bm25, query)} :
                      \E final \in FinalLists(dense.ids, sp, kk, aa) :
                          ret' = FilterAndShape(dense, final, th)
               /\ err' = "none"
    /\ lastOp' = Call("retrieve_hybrid", <<>>, <<>>, query, k, alpha, threshold)
    /\ UNCHANGED <<pending, store, bm25, config, tools_by_name>>

KArgs == {NoArg} \cup 1..MaxK
AlphaArgs == {NoArg}
ThresholdArgs == {NoArg, 70}

(***************************************************************************)
(* ToolsRAGConfig as validated at construction.                            *)
(***************************************************************************)
Configs ==
    [alpha : {DefaultAlpha}, top_k : {DefaultTopK},
     threshold : {DefaultThreshold}, filter_tools : BOOLEAN]

TopKMin == 1
TopKMax == 50

\* Faulty variant of ToolsRAGConfig: top_k has no lower limit.
ToolsRAGConfigNoFloor(alpha, top_k, threshold, filter_tools) ==
    IF /\ 0 <= alpha /\ alpha <= 100
       /\ top_k <= TopKMax
       /\ 0 <= threshold /\ threshold <= 100
    THEN [err |-> "none",
          config |-> [alpha |-> alpha, top_k |-> top_k,
                      threshold |-> threshold, filter_tools |-> filter_tools]]
    ELSE [err |-> "ValidationError", config |-> PyNone]

\* ToolsRAGConfig(alpha=..., top_k=..., threshold=..., filter_tools=...):
\* pydantic checks the ge / le limits of each Field.
ToolsRAGConfig(alpha, top_k, threshold, filter_tools) ==
    IF /\ 0 <= alpha /\ alpha <= 100
       /\ TopKMin <= top_k /\ top_k <= TopKMax
       /\ 0 <= threshold /\ threshold <= 100
    THEN [err |-> "none",
          config |-> [alpha |-> alpha, top_k |-> top_k,
                      threshold |-> threshold, filter_tools |-> filter_tools]]
    ELSE [err |-> "ValidationError", config |-> PyNone]

\* ToolsSkills.__init__ and ToolsRAG.__init__
Init ==
    /\ store = <<>>
    /\ bm25 = NoRanker
    /\ config \in Configs
    /\ tools_by_name = <<>>
    /\ lastOp = [op |-> "init", batch |-> <<>>, names |-> <<>>, query |-> <<>>,
                 k |-> NoArg, alpha |-> NoArg, threshold |-> NoArg,
                 again |-> FALSE]
    /\ ret = PyNone
    /\ err = "none"
    /\ pending = NoCall

Next ==
    \/ \E b \in Batches : PopulateTools(b)
    \/ \E b \in Batches : AddTools(b)
    \/ \E n \in NameLists : RemoveTools(n)
    \/ \E q \in Queries, k \in KArgs, a \in AlphaArgs, t \in ThresholdArgs :
           RetrieveHybrid(q, k, a, t)

Spec == Init /\ [][Next]_vars

(***************************************************************************)
(* The fusion exploration: catalogs grown by add_tools, queried with       *)
(* alpha and threshold overrides (0.0 included) on every call.             *)
(***************************************************************************)
FusionQueries == { <<"weather">>, <<"send", "email", "weather">> }
FusionAlphaArgs == {NoArg, 0}
FusionThresholdArgs == {0, 70, 100}

NextFusion ==
    \/ \E b \in SeqsUpTo(ToolPool, MaxBatch) : AddTools(b)
    \/ \E q \in FusionQueries, k \in KArgs, a \in FusionAlphaArgs,
          t \in FusionThresholdArgs : RetrieveHybrid(q, k, a, t)

SpecFusion == Init /\ [][NextFusion]_vars

(***************************************************************************)
(* The configuration exploration: a ToolsRAGConfig is built from given     *)
(* values (the ones tests/test_config.py tries), then a ToolsRAG with it   *)
(* is loaded and queried with the configured defaults.                     *)
(***************************************************************************)
GivenAlphas == {-10, 0, 50, 100, 110}
GivenTopKs == {TopKMin - 1, TopKMin, 25, TopKMax, TopKMax + 1}
GivenThresholds == {-10, 0, 50, 100, 110}

Construct(alpha, top_k, threshold) ==
    /\ config = PyNone
    /\ \E r \in {ToolsRAGConfig(alpha, top_k, threshold, TRUE)} :
          /\ config' = r.config
          /\ err' = r.err
    /\ ret' = PyNone
    /\ lastOp' = Call("ToolsRAGConfig", <<>>, <<>>, <<>>, top_k, alpha,
                      threshold)
    /\ UNCHANGED <<pending, store, bm25, tools_by_name>>

InitConfig ==
    /\ store = <<>>
    /\ bm25 = NoRanker
    /\ config = PyNone
    /\ tools_by_name = <<>>
    /\ lastOp = [op |-> "init", batch |-> <<>>, names |-> <<>>, query |-> <<>>,
                 k |-> NoArg, alpha |-> NoArg, threshold |-> NoArg,
                 again |-> FALSE]
    /\ ret = PyNone
    /\ err = "none"
    /\ pending = NoCall

NextConfig ==
    \/ \E a \in GivenAlphas, k \in GivenTopKs, t \in GivenThresholds :
           Construct(a, k, t)
    \/ config # PyNone /\ PopulateTools(<<Email, Calc>>)
    \/ /\ config # PyNone
       /\ \E q \in FusionQueries :
              RetrieveHybrid(q, NoArg, NoArg, NoArg)

SpecConfig == InitConfig /\ [][NextConfig]_vars

(***************************************************************************)
(* The override exploration: retrieve_hybrid with each of k, alpha and     *)
(* threshold left out or given, 0 and 0.0 included.                        *)
(***************************************************************************)
OverrideKArgs == {NoArg, 0, 1}
OverrideAlphaArgs == {NoArg, 0}
OverrideThresholdArgs == {NoArg, 0}

NextOverride ==
    \/ \E b \in SeqsUpTo(ToolPool, MaxBatch) : AddTools(b)
    \/ \E q \in FusionQueries, k \in OverrideKArgs, a \in OverrideAlphaArgs,
          t \in OverrideThresholdArgs : RetrieveHybrid(q, k, a, t)

SpecOverride == Init /\ [][NextOverride]_vars

(***************************************************************************)
(* The sparse-score exploration: _retrieve_sparse_scores over every vector *)
(* of raw scores BM25Okapi.get_scores can hand back for the corpus.  A raw *)
(* score is below zero when the query's terms have a negative idf (a term  *)
(* that occurs in more than half of the documents, e.g. in the only one).  *)
(***************************************************************************)
MaxRawScore == 2   \* largest raw score

RawScores(n) == [1..n -> -1..MaxRawScore]

\* The dict returned: name -> raw / max_score, kept as the fraction.
ScoreDict(sp) ==
    PyDict([i \in DOMAIN sp.names |->
               <<sp.names[i], [num |-> sp.raw[i], den |-> sp.max_score]>>])

\* ToolsRAG._retrieve_sparse_scores, given what get_scores returns.
SparseScoresCall(raw) ==
    /\ Len(raw) = Len(bm25.corpus)
    /\ ret' = IF ~bm25.built THEN PyDict(<<>>)
              ELSE ScoreDict(ZipNormalized(GetAll(store).ids, raw))
    /\ err' = "none"
    /\ lastOp' = Op("_retrieve_sparse_scores", <<>>, <<>>) @@ [raw |-> raw]
    /\ UNCHANGED <<pending, store, bm25, config, tools_by_name>>

NextSparse ==
    \/ \E b \in SeqsUpTo(ToolPool, MaxBatch) : AddTools(b)
    \/ \E n \in 0..3 : \E raw \in RawScores(n) : SparseScoresCall(raw)

SpecSparse == Init /\ [][NextSparse]_vars

(***************************************************************************)
(* Mutations that raise: a record without a description, a batch that      *)
(* names an id twice, an empty list, and a catalog whose documents hold no *)
(* word; queries in between.                                               *)
(***************************************************************************)
FailureBatches ==
    {<<>>, <<Blank>>, <<Email>>, <<Calc>>, <<Email, Blank>>, <<Email, Email>>,
     <<NoDesc>>, <<Email, NoDesc>>}
FailureNameLists == {<<>>, <<"send_email">>, <<"calculate">>, <<" ">>}

NextFailure ==
    \/ \E b \in FailureBatches : PopulateTools(b)
    \/ \E b \in FailureBatches : AddTools(b)
    \/ \E n \in FailureNameLists : RemoveTools(n)
    \/ \E q \in FusionQueries, t \in OverrideThresholdArgs :
          RetrieveHybrid(q, NoArg, NoArg, t)

SpecFailure == Init /\ [][NextFailure]_vars

(***************************************************************************)
(* add_tools and remove_tools as the two steps they are made of, store     *)
(* update and ranker rebuild, run by one thread while another thread runs  *)
(* retrieve_hybrid: no lock is held between the steps.                     *)
(***************************************************************************)
\* Faulty variant of AddToolsStore: the ranker is rebuilt in the same step as
\* the store update, as under a lock that queries also take.
AddToolsStoreLocked(new_tools) ==
    /\ pending = NoCall
    /\ \E r \in {Upsert(store, bm25, new_tools)} :
          /\ store' = r.coll
          /\ bm25' = r.bm25
          /\ err' = r.err
          /\ pending' = IF r.err = "none"
                        THEN Pending("add_tools", new_tools, <<>>, store)
                        ELSE NoCall
          /\ lastOp' = IF r.err = "none"
                       THEN Op("store.add", new_tools, <<>>)
                       ELSE Op("add_tools", new_tools, <<>>)
    /\ ret' = PyNone
    /\ UNCHANGED <<config, tools_by_name>>

\* ToolsRAG.add_tools up to the return of store.add: a KeyError or a batch
\* the store rejects ends the call; otherwise the store is written and the
\* rebuild is still to come (also the rebuild that will raise).
AddToolsStore(new_tools) ==
    /\ pending = NoCall
    /\ \E r \in {Upsert(store, bm25, new_tools)} :
          /\ store' = r.coll
          /\ err' = IF r.err = "ZeroDivisionError" THEN "none" ELSE r.err
          /\ pending' = IF r.err \in {"none", "ZeroDivisionError"}
                        THEN Pending("add_tools", new_tools, <<>>, store)
                        ELSE NoCall
          /\ lastOp' = IF r.err \in {"none", "ZeroDivisionError"}
                       THEN Op("store.add", new_tools, <<>>)
                       ELSE Op("add_tools", new_tools, <<>>)
    /\ ret' = PyNone
    /\ UNCHANGED <<bm25, config, tools_by_name>>

\* ToolsRAG.remove_tools up to the return of store.delete.
RemoveToolsStore(tool_names) ==
    /\ pending = NoCall
    /\ \E r \in {StoreDelete(store, tool_names)} :
          /\ store' = r.coll
          /\ err' = r.err
          /\ pending' = IF r.err = "none"
                        THEN Pending("remove_tools", <<>>, tool_names, store)
                        ELSE NoCall
          /\ lastOp' = IF r.err = "none"
                       THEN Op("store.delete", <<>>, tool_names)
                       ELSE Op("remove_tools", <<>>, tool_names)
    /\ ret' = PyNone
    /\ UNCHANGED <<bm25, config, tools_by_name>>

\* The second step of the pending mutation: _rebuild_bm25, then the return.
Rebuild ==
    /\ pending # NoCall
    /\ bm25' = IF RebuildRaises(store) THEN bm25 ELSE RebuildBm25(store)
    /\ err' = IF RebuildRaises(store) THEN "ZeroDivisionError" ELSE "none"
    /\ ret' = PyNone
    /\ lastOp' = Op(pending.op, pending.batch, pending.names)
    /\ pending' = NoCall
    /\ UNCHANGED <<store, config, tools_by_name>>

InterleavedNameLists == {<<"get_weather">>, <<"calculate">>, <<UnknownName>>}

NextInterleaved ==
    \/ \E b \in SeqsUpTo(ToolPool, MaxBatch) : AddToolsStore(b)
    \/ \E n \in InterleavedNameLists : RemoveToolsStore(n)
    \/ Rebuild
    \/ \E q \in FusionQueries, t \in OverrideThresholdArgs :
          RetrieveHybrid(q, NoArg, NoArg, t)

SpecInterleaved == Init /\ [][NextInterleaved]_vars

(***************************************************************************)
(* evaluation.py: _calculate_rank on every expected name (or None) and     *)
(* every list of retrieved names up to a bound.                            *)
(***************************************************************************)
MaxRetrieved == 3   \* longest list of retrieved names

PyStr(s) == [type |-> "str", value |-> s]
PyInt(n) == [type |-> "int", value |-> n]

\* list.index: the 0-based position of the first occurrence, ValueError when
\* there is none.
ListIndex(s, x) ==
    IF x \in SeqSet(s)
    THEN [err |-> "none",
          value |-> (CHOOSE i \in DOMAIN s :
                        s[i] = x /\ \A j \in 1..(i - 1) : s[j] # x) - 1]
    ELSE [err |-> "ValueError", value |-> 0]

\* Faulty variant of CalculateRank: the 0-based index is returned as it is.
CalculateRankZeroBased(expected, retrieved) ==
    IF expected.type = "NoneType" THEN -1
    ELSE LET r == ListIndex(retrieved, expected.value) IN
         IF r.err = "none" THEN r.value ELSE -1

\* _calculate_rank
CalculateRank(expected, retrieved) ==
    IF expected.type = "NoneType" THEN -1
    ELSE LET r == ListIndex(retrieved, expected.value) IN
         IF r.err = "none" THEN r.value + 1 ELSE -1

RankNames == {"get_weather", "send_email", "calculate"}
ExpectedArgs == {PyNone} \cup {PyStr(n) : n \in RankNames \cup {UnknownName}}

CalcRank(expected, retrieved) ==
    /\ ret' = PyInt(CalculateRank(expected, retrieved))
    /\ err' = "none"
    /\ lastOp' = Op("_calculate_rank", <<>>, retrieved)
                     @@ [expected |-> expected]
    /\ UNCHANGED <<pending, store, bm25, config, tools_by_name>>

NextRank ==
    \E e \in ExpectedArgs, r \in SeqsUpTo(RankNames, MaxRetrieved) :
        CalcRank(e, r)

SpecRank == Init /\ [][NextRank]_vars

(***************************************************************************)
(* ToolsSkills (skills.py): the catalog dict and its mutations.            *)
(***************************************************************************)
\* tools_by_name[tool["name"]] = tool.copy(): a key keeps its place
DictSet(d, tool) ==
    IF \E i \in DOMAIN d : d[i].name = tool.name
    THEN [i \in DOMAIN d |-> IF d[i].name = tool.name THEN tool ELSE d[i]]
    ELSE Append(d, tool)

RECURSIVE DictSetAll(_, _)
DictSetAll(d, tools) ==
    IF tools = <<>> THEN d ELSE DictSetAll(DictSet(d, Head(tools)), Tail(tools))

SkillsOp(name, batch, names) ==
    Op(name, batch, names) @@ [filter_tools |-> TRUE, response |-> PyNone]

\* ToolsSkills.populate_tools
SkillsPopulateTools(tools) ==
    /\ tools_by_name' = DictSetAll(<<>>, tools)
    /\ err' = "none"
    /\ ret' = PyNone
    /\ lastOp' = SkillsOp("skills.populate_tools", tools, <<>>)
    /\ UNCHANGED <<pending, store, bm25, config>>

\* ToolsSkills.add_tools
SkillsAddTools(tools) ==
    /\ tools_by_name' = DictSetAll(tools_by_name, tools)
    /\ err' = "none"
    /\ ret' = PyNone
    /\ lastOp' = SkillsOp("skills.add_tools", tools, <<>>)
    /\ UNCHANGED <<pending, store, bm25, config>>

\* ToolsSkills.remove_tools: tools_by_name.pop(name, None) for each name
SkillsRemoveTools(tool_names) ==
    /\ tools_by_name' = SelectSeq(tools_by_name,
                             LAMBDA t : t.name \notin SeqSet(tool_names))
    /\ err' = "none"
    /\ ret' = PyNone
    /\ lastOp' = SkillsOp("skills.remove_tools", <<>>, tool_names)
    /\ UNCHANGED <<pending, store, bm25, config>>

(***************************************************************************)
(* ToolsSkills._group_by_server: a dict from server to the records without *)
(* their "server" key, keys in order of first occurrence.                  *)
(***************************************************************************)
\* tool_copy.pop("server", "default")
ServerOf(tool) == IF "server" \in DOMAIN tool THEN tool.server ELSE "default"

GroupAppend(d, key, value) ==
    IF \E i \in DOMAIN d : d[i][1] = key
    THEN [i \in DOMAIN d |->
             IF d[i][1] = key THEN <<key, Append(d[i][2], value)>> ELSE d[i]]
    ELSE Append(d, <<key, <<value>>>>)

RECURSIVE GroupItems(_, _)
GroupItems(d, tools) ==
    IF tools = <<>> THEN d
    ELSE GroupItems(GroupAppend(d, ServerOf(Head(tools)),
                                PopServer(Head(tools))), Tail(tools))

GroupByServer(tools) == PyDict(GroupItems(<<>>, tools))

(***************************************************************************)
(* What the chat completion gives back.  A response has a list of choices; *)
(* the content of the first one is None or a text, and a text is the JSON  *)
(* serialization of a value, such a serialization inside a ```json fence,  *)
(* or prose.                                                               *)
(***************************************************************************)
MaxSelected == 2   \* longest list of names the model's answer holds

JArray(s) == [json |-> "array", items |-> s]
JObject(fields) == [json |-> "object", fields |-> fields]
JNull == [json |-> "null"]

JsonText(v) == [type |-> "str", kind |-> "json", value |-> v]
FencedText(v) == [type |-> "str", kind |-> "fenced", value |-> v]
Prose == [type |-> "str", kind |-> "prose"]

Response(content) == [choices |-> <<content>>]
NoChoices == [choices |-> <<>>]

SelectableNames == {"get_weather", "send_email", UnknownName}
Responses ==
    {Response(JsonText(JObject([selected_tools |-> JArray(n)]))) :
        n \in SeqsUpTo(SelectableNames, MaxSelected)}
    \cup {Response(JsonText(JObject([tools |-> JArray(<<"send_email">>)]))),
          Response(JsonText(JObject(<<>>))),
          Response(JsonText(JArray(<<"send_email">>))),
          Response(FencedText(JArray(<<"send_email">>))),
          Response(FencedText(
              JObject([selected_tools |-> JArray(<<"send_email">>)]))),
          Response(Prose),
          Response(JsonText(JObject([selected_tools |-> JNull]))),
          Response(JsonText(JNull)),
          Response(PyNone),
          NoChoices}

\* Lines 133-146: json.loads(content) and the unwrapping of a dict; when
\* content is not JSON, json.loads of what the fence holds, or of the
\* content itself (which raises again).
SelectedNames(content) ==
    IF content.kind = "json"
    THEN LET result == content.value IN
         IF result.json = "object"
         THEN [err |-> "none",
               value |-> IF "selected_tools" \in DOMAIN result.fields
                         THEN result.fields.selected_tools
                         ELSE IF "tools" \in DOMAIN result.fields
                         THEN result.fields.tools
                         ELSE JArray(<<>>)]
         ELSE [err |-> "none", value |-> result]
    ELSE IF content.kind = "fenced"
    THEN [err |-> "none", value |-> content.value]
    ELSE [err |-> "JSONDecodeError", value |-> JNull]

\* Lines 149-152: for name in selected_names: if name in self.tools_by_name
SelectedTools(catalog, selected_names) ==
    IF selected_names.json = "array"
    THEN [err |-> "none",
          tools |-> LET hits == SelectSeq(selected_names.items,
                                   LAMBDA n : \E i \in DOMAIN catalog :
                                                 catalog[i].name = n)
                    IN [i \in DOMAIN hits |->
                           catalog[CHOOSE j \in DOMAIN catalog :
                                       catalog[j].name = hits[i]]]]
    ELSE IF selected_names.json = "object"      \* iterates the (one) key
    THEN [err |-> "none",
          tools |-> SelectSeq(catalog, LAMBDA t :
                                 t.name \in DOMAIN selected_names.fields)]
    ELSE [err |-> "TypeError", tools |-> <<>>]

\* Lines 119-159: the try block and its except clause.  The outcome is the
\* returned value, or the exception that leaves retrieve_skills.
AskModel(catalog, k, response) ==
    LET fallback == [err |-> "none", ret |-> GroupByServer(Take(catalog, k))]
    IN IF response.choices = <<>> THEN fallback                \* IndexError
       ELSE LET content == response.choices[1] IN
       IF content.type = "NoneType"
       THEN [err |-> "AttributeError", ret |-> PyNone]          \* None.strip()
       ELSE LET names == SelectedNames(content) IN
       IF names.err # "none" THEN fallback                     \* JSONDecodeError
       ELSE LET sel == SelectedTools(catalog, names.value) IN
       IF sel.err # "none" THEN [err |-> sel.err, ret |-> PyNone]
       ELSE [err |-> "none", ret |-> GroupByServer(sel.tools)]

\* The model is asked only past the three early returns.
Asked(catalog, k, filter_tools) ==
    filter_tools /\ catalog # <<>> /\ k < Len(catalog)

NotAsked == [choices |-> <<PyNone>>, asked |-> FALSE]

\* Faulty variant of RetrieveSkills: grouping pops "server" from the
\* catalog's own records instead of copies.
RetrieveSkillsPopsCatalog(query, k, filter_tools, response) ==
    /\ Asked(tools_by_name, k, filter_tools) <=> response # NotAsked
    /\ \E out \in {
            IF ~filter_tools THEN [err |-> "none", ret |-> PyNone]
            ELSE IF tools_by_name = <<>>
            THEN [err |-> "none", ret |-> PyDict(<<>>)]
            ELSE IF k >= Len(tools_by_name)
            THEN [err |-> "none", ret |-> GroupByServer(tools_by_name)]
            ELSE IF \E i \in DOMAIN tools_by_name :
                       ~WellFormed(tools_by_name[i])
            THEN [err |-> "KeyError", ret |-> PyNone]
            ELSE AskModel(tools_by_name, k, response)} :
          /\ ret' = out.ret
          /\ err' = out.err
          /\ tools_by_name' =
                 IF out.ret.type = "dict"
                 THEN [i \in DOMAIN tools_by_name |->
                          PopServer(tools_by_name[i])]
                 ELSE tools_by_name
    /\ lastOp' = Call("retrieve_skills", <<>>, <<>>, query, k, NoArg, NoArg)
                     @@ [filter_tools |-> filter_tools, response |-> response]
    /\ UNCHANGED <<pending, store, bm25, config>>

\* ToolsSkills.retrieve_skills
RetrieveSkills(query, k, filter_tools, response) ==
    /\ Asked(tools_by_name, k, filter_tools) <=> response # NotAsked
    /\ \E out \in {
            IF ~filter_tools THEN [err |-> "none", ret |-> PyNone]
            ELSE IF tools_by_name = <<>>
            THEN [err |-> "none", ret |-> PyDict(<<>>)]
            ELSE IF k >= Len(tools_by_name)
            THEN [err |-> "none", ret |-> GroupByServer(tools_by_name)]
            ELSE IF \E i \in DOMAIN tools_by_name :
                       ~WellFormed(tools_by_name[i])
            THEN [err |-> "KeyError", ret |-> PyNone]      \* building the prompt
            ELSE AskModel(tools_by_name, k, response)} :
          /\ ret' = out.ret
          /\ err' = out.err
    /\ lastOp' = Call("retrieve_skills", <<>>, <<>>, query, k, NoArg, NoArg)
                     @@ [filter_tools |-> filter_tools, response |-> response]
    /\ UNCHANGED <<pending, store, bm25, config, tools_by_name>>

(***************************************************************************)
(* The selector exploration: a ToolsSkills under every mutation and every  *)
(* answer of the model, next to a ToolsRAG loaded with two records.        *)
(***************************************************************************)
SkillsBatches ==
    SeqsUpTo(ToolPool, MaxBatch)
        \cup {<<Email, Calc>>, <<WeatherV1, WeatherV2>>, <<Email, NoDesc>>}
SkillsKArgs == 1..MaxK \cup {DefaultTopK}

NextSkills ==
    \/ \E b \in SkillsBatches : SkillsPopulateTools(b)
    \/ \E b \in SkillsBatches : SkillsAddTools(b)
    \/ \E n \in NameLists : SkillsRemoveTools(n)
    \/ \E k \in SkillsKArgs, f \in BOOLEAN, r \in Responses \cup {NotAsked} :
           RetrieveSkills(<<"send", "email", "weather">>, k, f, r)
    \/ PopulateTools(<<Email, Calc>>)
    \/ RetrieveHybrid(<<"send", "email", "weather">>, NoArg, NoArg, NoArg)

SpecSkills == Init /\ [][NextSkills]_vars

(***************************************************************************)
(* Properties.                                                             *)
(***************************************************************************)
Mutations == {"populate_tools", "add_tools", "remove_tools"}

EntryOf(coll, id) == coll[IndexOf(Ids(coll), id)]

BatchNames(batch) ==
    {batch[i].name : i \in {j \in DOMAIN batch : "name" \in DOMAIN batch[j]}}

ValidBatch(batch) ==
    /\ batch # <<>>
    /\ \A i \in DOMAIN batch : WellFormed(batch[i])
    /\ ~HasDuplicates([i \in DOMAIN batch |-> batch[i].name])

ReplacesExisting ==
    [][ (/\ lastOp'.op \in {"populate_tools", "add_tools"}
         /\ ValidBatch(lastOp'.batch))
        => \A i \in DOMAIN lastOp'.batch :
              lastOp'.batch[i].name \in IdSet(store)
              => /\ err' = "none"
                 /\ lastOp'.batch[i].name \in IdSet(store')
                 /\ EntryOf(store', lastOp'.batch[i].name)
                        = Entry(lastOp'.batch[i]) ]_vars

\* C3: a full scan of the store never lists a name twice.
UniqueIds == ~HasDuplicates(GetAll(store).ids)

\* add_tools has returned after being given a name that was already stored
\* with other content, and the store holds several records.
ReAddedAmongSeveral ==
    /\ lastOp.op = "add_tools"
    /\ err = "none"
    /\ Len(store) >= 2
    /\ \E i \in DOMAIN lastOp.batch :
          /\ lastOp.batch[i].name \in IdSet(store)
          /\ EntryOf(store, lastOp.batch[i].name) # Entry(lastOp.batch[i])

\* C4: when a mutation has returned, the full scan of the store and the
\* ranker's corpus have the same number of entries, and there is no ranker
\* exactly when the store is empty.
RebuildConsistent ==
    (lastOp.op \in Mutations /\ err = "none")
    => /\ Len(GetAll(store).ids) = Len(bm25.corpus)
       /\ (~bm25.built <=> store = <<>>)

\* add_tools of two records has returned; the store ends with the second of
\* them and holds three records, as does the ranker's corpus.
GrownByAdd ==
    /\ lastOp.op = "add_tools"
    /\ ~lastOp.again
    /\ err = "none"
    /\ Len(lastOp.batch) = 2
    /\ Len(store) = 3
    /\ store[3] = Entry(lastOp.batch[2])
    /\ Len(bm25.corpus) = 3

\* C5: a retrieve_hybrid scores against a ranker built from exactly the
\* documents now in the store, in the order of the store's ids, so that each
\* name is paired with the raw score of its own document.
NoStaleRanker ==
    (lastOp.op = "retrieve_hybrid" /\ config.filter_tools)
    => LET sp == RetrieveSparseScores(store, bm25, lastOp.query)
           fresh == [i \in DOMAIN store |-> Split(store[i].document)]
       IN /\ bm25 = RebuildBm25(store)
          /\ sp.names = GetAll(store).ids
          /\ store # <<>> =>
                sp.raw = GetScores(BM25Okapi(fresh), Split(lastOp.query))

\* A query was served over several records whose raw sparse scores differ.
QueriedWithDistinctScores ==
    /\ lastOp.op = "retrieve_hybrid"
    /\ config.filter_tools
    /\ Len(store) >= 2
    /\ LET sp == RetrieveSparseScores(store, bm25, lastOp.query)
       IN \E i, j \in DOMAIN sp.raw : sp.raw[i] > 0 /\ sp.raw[j] = 0

PopulateKeepsOthers ==
    [][ lastOp'.op = "populate_tools"
        => \A i \in DOMAIN store :
              store[i].id \notin BatchNames(lastOp'.batch)
              => \E m \in DOMAIN store' : store'[m] = store[i] ]_vars

\* populate_tools has loaded a record and the store still holds a record
\* the call did not name.
PopulatedOverExisting ==
    /\ lastOp.op = "populate_tools"
    /\ err = "none"
    /\ \E i \in DOMAIN store : store[i].id \notin BatchNames(lastOp.batch)
    /\ \E j \in DOMAIN lastOp.batch, m \in DOMAIN store :
          store[m] = Entry(lastOp.batch[j])

\* C8: with config.filter_tools false, retrieve_hybrid returns None.
DisabledReturnsNone ==
    (lastOp.op = "retrieve_hybrid" /\ ~config.filter_tools) => ret = PyNone

\* C9: with filtering enabled, retrieve_hybrid on an empty catalog raises
\* nothing and returns an empty mapping, which is not None.
EmptyCatalogEmptyMapping ==
    (lastOp.op = "retrieve_hybrid" /\ config.filter_tools /\ store = <<>>)
    => /\ err = "none"
       /\ ret # PyNone
       /\ ret.type = "dict"
       /\ PyLen(ret) = 0

\* C10: when every candidate has a dense similarity below the threshold,
\* retrieve_hybrid raises nothing and returns a collection of length 0, which
\* is not None.
ThresholdExhaustionEmpty ==
    (/\ lastOp.op = "retrieve_hybrid"
     /\ config.filter_tools
     /\ store # <<>>
     /\ LET th == EffThreshold(config, lastOp.threshold)
            dense == DenseOf(store, lastOp.query, EffK(config, lastOp.k))
        IN /\ th > 0
           /\ \A i \in DOMAIN dense.similarities : dense.similarities[i] < th)
    => /\ err = "none"
       /\ ret # PyNone
       /\ PyLen(ret) = 0

(***************************************************************************)
(* Properties of fusion and filtering (checked on SpecFusion).             *)
(***************************************************************************)
\* retrieve_hybrid has returned with filtering enabled.
Retrieved == lastOp.op = "retrieve_hybrid" /\ config.filter_tools

LastK == EffK(config, lastOp.k)
LastAlpha == EffAlpha(config, lastOp.alpha)
LastThreshold == EffThreshold(config, lastOp.threshold)
LastDense == DenseOf(store, lastOp.query, LastK)
LastSparse == RetrieveSparseScores(store, bm25, lastOp.query)

\* The tools of a returned pair, and their names.
ToolsOf(v) == v.items[1].items
NamesOf(v) == {ToolsOf(v)[i].name : i \in DOMAIN ToolsOf(v)}

\* The thresholds a call is compared under.
ThresholdGrid == {0, 1, 50, 70, 80, 96, 100}

\* C11: for the catalog, query, k and alpha of a call (and the final list it
\* computed), the number of tools returned under a threshold t2 is not larger
\* than the number returned under any threshold t1 <= t2; the call's own
\* threshold and returned value are one of the compared cases.
ThresholdMonotone ==
    Retrieved =>
        \E final \in FinalLists(LastDense.ids, LastSparse, LastK, LastAlpha) :
            /\ ret = FilterAndShape(LastDense, final, LastThreshold)
            /\ \A t1, t2 \in ThresholdGrid \cup {LastThreshold} :
                  t1 <= t2 =>
                      Len(ToolsOf(FilterAndShape(LastDense, final, t2)))
                          <= Len(ToolsOf(FilterAndShape(LastDense, final, t1)))

\* A call with threshold 0.7 returned two tools where threshold 0 gives three
\* and threshold 1.0 gives one.
ThresholdShrinksResult ==
    /\ Retrieved
    /\ lastOp.threshold = 70
    /\ Len(ToolsOf(ret)) = 2
    /\ \E final \in FinalLists(LastDense.ids, LastSparse, LastK, LastAlpha) :
          /\ ret = FilterAndShape(LastDense, final, 70)
          /\ Len(ToolsOf(FilterAndShape(LastDense, final, 0))) = 3
          /\ Len(ToolsOf(FilterAndShape(LastDense, final, 100))) = 1

\* The record stored under id is one of the k records nearest to the query:
\* fewer than k records are nearer (or as near and inserted earlier).
InDenseTopK(coll, query, k, id) ==
    \E i \in DOMAIN coll :
        /\ coll[i].id = id
        /\ LET d(j) == CosineDistance(Encode(query), coll[j].embedding)
           IN Cardinality({j \in DOMAIN coll :
                              d(j) < d(i) \/ (d(j) = d(i) /\ j < i)}) < k

\* The names the sparse ranking brings in and the dense search does not.
SparseOnly ==
    {t \in SeqSet(SparseIds(LastSparse, LastK)) :
        ~InDenseTopK(store, lastOp.query, LastK, t)}

\* C12: under a threshold > 0, a tool that is among the sparse top-k and not
\* among the k records nearest to the query is not in the value
\* retrieve_hybrid returns.
SparseOnlyExcluded ==
    (Retrieved /\ LastThreshold > 0)
    => \A t \in SparseOnly : t \notin NamesOf(ret)

\* A call with a positive threshold whose final list holds a sparse-only
\* name, over a catalog in which that name's similarity would pass the
\* threshold.
SparseOnlyRankedFirst ==
    /\ Retrieved
    /\ LastThreshold > 0
    /\ \E t \in SparseOnly :
          /\ \A final \in FinalLists(LastDense.ids, LastSparse, LastK,
                                     LastAlpha) : t \in SeqSet(final)
          /\ \E i \in DOMAIN store :
                /\ store[i].id = t
                /\ 100 - CosineDistance(Encode(lastOp.query),
                                        store[i].embedding) >= LastThreshold

\* C13: under threshold 0, every sparse-only name of the final list is in the
\* value retrieve_hybrid returns.
SparseOnlySurvivesAtZero ==
    (Retrieved /\ LastThreshold = 0)
    => \E final \in FinalLists(LastDense.ids, LastSparse, LastK, LastAlpha) :
           /\ ret = FilterAndShape(LastDense, final, LastThreshold)
           /\ \A t \in SparseOnly \cap SeqSet(final) : t \in NamesOf(ret)

\* 1 - cosine distance between the query and the record stored under id.
StoredSimilarity(query, id) ==
    100 - CosineDistance(Encode(query), EntryOf(store, id).embedding)

\* C14: a name of the final list that the dense search returned is in the
\* value retrieve_hybrid returns if and only if 1 - cosine distance between
\* the query and its stored record is >= the threshold.
FilterUsesDenseSimilarity ==
    Retrieved
    => \E final \in FinalLists(LastDense.ids, LastSparse, LastK, LastAlpha) :
           /\ ret = FilterAndShape(LastDense, final, LastThreshold)
           /\ \A t \in SeqSet(final) \cap SeqSet(LastDense.ids) :
                 t \in NamesOf(ret)
                     <=> StoredSimilarity(lastOp.query, t) >= LastThreshold

\* A call with alpha = 0 returned a tool whose similarity equals the threshold
\* and left out a dense result of the final list whose similarity is lower.
KeptAtThresholdDroppedBelow ==
    /\ Retrieved
    /\ LastAlpha = 0
    /\ \E t \in NamesOf(ret) :
          StoredSimilarity(lastOp.query, t) = LastThreshold
    /\ \E t \in SeqSet(LastDense.ids) \ NamesOf(ret) :
          /\ StoredSimilarity(lastOp.query, t) < LastThreshold
          /\ \A final \in FinalLists(LastDense.ids, LastSparse, LastK,
                                     LastAlpha) : t \in SeqSet(final)

\* The number of stored records nearer to the query than the one under id
\* (or as near and inserted earlier): its 0-indexed dense rank.
NearerCount(query, id) ==
    LET i == IndexOf(Ids(store), id)
        d(j) == CosineDistance(Encode(query), store[j].embedding)
    IN Cardinality({j \in DOMAIN store :
                       d(j) < d(i) \/ (d(j) = d(i) /\ j < i)})

\* The raw sparse score of the document stored under id, and the largest one.
StoredRaw(query, id) ==
    SumSeq([q \in DOMAIN query |->
               TermFreq(EntryOf(store, id).document, query[q])])
LargestRaw(query) ==
    MaxSeq([i \in DOMAIN store |-> StoredRaw(query, store[i].id)])
Divisor(query) == IF LargestRaw(query) > 0 THEN LargestRaw(query) ELSE 1

\* alpha * dense_score + (1 - alpha) * sparse_score of the name t, times
\* 100 * k * Divisor: dense_score is 1 - i/k for the i-th (0-indexed) of the
\* k nearest records and 0 for the others, sparse_score is the raw score
\* over the largest raw score.
ExpectedFused(query, k, alpha, t) ==
    LET i == NearerCount(query, t)
        dense_k == IF i < k THEN k - i ELSE 0
    IN alpha * dense_k * Divisor(query)
           + (100 - alpha) * StoredRaw(query, t) * k

\* C20: every name of the candidate union gets the fused score
\* alpha * (1 - i/k) + (1 - alpha) * normalized sparse score, and the tools
\* retrieve_hybrid returns are in descending order of that score.
FusedScoreFormula ==
    Retrieved
    => /\ \A t \in Candidates(LastDense.ids, SparseIds(LastSparse, LastK)) :
             FusedNum(LastDense.ids, LastSparse, LastK, LastAlpha, t)
                 = ExpectedFused(lastOp.query, LastK, LastAlpha, t)
       /\ \A i, j \in DOMAIN ToolsOf(ret) :
             i < j => ExpectedFused(lastOp.query, LastK, LastAlpha,
                                    ToolsOf(ret)[i].name)
                          >= ExpectedFused(lastOp.query, LastK, LastAlpha,
                                           ToolsOf(ret)[j].name)

\* A call with alpha 0.8 and k = 2 returned two tools; the second dense
\* result has half the largest raw sparse score, so its fused score is
\* 0.8 * 1/2 + 0.2 * 1/2.
FusedSecondDense ==
    /\ Retrieved
    /\ LastAlpha = 80
    /\ LastK = 2
    /\ Len(ToolsOf(ret)) = 2
    /\ Divisor(lastOp.query) = 2
    /\ \E t \in SeqSet(LastDense.ids) :
          /\ NearerCount(lastOp.query, t) = 1
          /\ StoredRaw(lastOp.query, t) = 1
          /\ FusedNum(LastDense.ids, LastSparse, LastK, LastAlpha, t) = 200

(***************************************************************************)
(* Properties of the returned shape.                                       *)
(***************************************************************************)
\* The record the store holds under a name, as populate_tools was given it.
StoredTool(name) == JsonLoads(EntryOf(store, name).metadata.tool_json)

\* v is a dict whose values are lists of records without a "server" key.
IsServerMapping(v) ==
    /\ v.type = "dict"
    /\ \A p \in DOMAIN v.items : \A i \in DOMAIN v.items[p][2] :
          "server" \notin DOMAIN v.items[p][2][i]

\* C15: with filtering enabled, retrieve_hybrid returns a mapping from server
\* to lists of records; each record is under the key of its stored server
\* ("default" when it was stored without one) and has no "server" field.
ShapedByServer ==
    Retrieved
    => /\ IsServerMapping(ret)
       /\ \A p \in DOMAIN ret.items : \A i \in DOMAIN ret.items[p][2] :
             ServerOf(StoredTool(ret.items[p][2][i].name)) = ret.items[p][1]

\* C16: a retrieve_hybrid and a retrieve_skills that return give None when
\* filtering is disabled and otherwise a dict from server to lists of
\* records without the "server" field.
InterchangeableResults ==
    (lastOp.op \in {"retrieve_hybrid", "retrieve_skills"} /\ err = "none")
    => IF lastOp.op = "retrieve_hybrid"
       THEN IF ~config.filter_tools THEN ret = PyNone
            ELSE IsServerMapping(ret)
       ELSE IF ~lastOp.filter_tools THEN ret = PyNone
            ELSE IsServerMapping(ret)

\* The answer is not a usable selection: no choice, no content, a text that
\* is not JSON, or JSON whose selection is not a list.
Malformed(response) ==
    \/ response.choices = <<>>
    \/ response.choices[1].type = "NoneType"
    \/ /\ response.choices[1].type = "str"
       /\ \/ response.choices[1].kind = "prose"
          \/ /\ response.choices[1].kind = "json"
             /\ LET v == response.choices[1].value IN
                \/ v.json = "null"
                \/ /\ v.json = "object"
                   /\ "selected_tools" \in DOMAIN v.fields
                   /\ v.fields.selected_tools.json # "array"

\* C18: when the model was asked (over a catalog of well-formed records) and
\* its answer is malformed, retrieve_skills raises nothing and returns the
\* first k catalog records grouped by server.
DegradesGracefully ==
    (/\ lastOp.op = "retrieve_skills"
     /\ lastOp.response # NotAsked
     /\ \A i \in DOMAIN tools_by_name : WellFormed(tools_by_name[i])
     /\ Malformed(lastOp.response))
    => /\ err = "none"
       /\ ret = GroupByServer(Take(tools_by_name, lastOp.k))

(***************************************************************************)
(* Properties of the configuration.                                        *)
(***************************************************************************)
\* C17: building a ToolsRAGConfig fails with a validation error exactly when
\* alpha is outside [0,1], top_k outside [1,50] or threshold outside [0,1]
\* (so the limits themselves are accepted, and the built configuration holds
\* the given values); a retrieve_hybrid with a built configuration raises
\* nothing.
ConfigErrorsAtConstruction ==
    /\ lastOp.op = "ToolsRAGConfig"
           => /\ err = "ValidationError"
                    <=> \/ lastOp.alpha < 0 \/ lastOp.alpha > 100
                        \/ lastOp.k < 1 \/ lastOp.k > 50
                        \/ lastOp.threshold < 0 \/ lastOp.threshold > 100
              /\ err \in {"none", "ValidationError"}
              /\ err = "none"
                    => /\ config # PyNone
                       /\ config.alpha = lastOp.alpha
                       /\ config.top_k = lastOp.k
                       /\ config.threshold = lastOp.threshold
              /\ err # "none" => config = PyNone
    /\ lastOp.op = "retrieve_hybrid" => err = "none"

\* A configuration built from limits (alpha 1.0, top_k 1, threshold 0.0) has
\* served a query that returned one tool.
QueriedWithLimits ==
    /\ lastOp.op = "retrieve_hybrid"
    /\ config.alpha = 100
    /\ config.top_k = 1
    /\ config.threshold = 0
    /\ err = "none"
    /\ ret.type = "tuple"
    /\ Len(ToolsOf(ret)) = 1

(***************************************************************************)
(* Properties of the evaluation helpers.                                   *)
(***************************************************************************)
\* C19: _calculate_rank returns -1 when expected is None, -1 when expected
\* does not occur in retrieved, and otherwise the 1-based position of the
\* first occurrence of expected; the result is -1 or in 1..len(retrieved).
RankComputation ==
    lastOp.op = "_calculate_rank"
    => LET e == lastOp.expected
           r == lastOp.names
           v == ret.value
       IN /\ ret.type = "int"
          /\ err = "none"
          /\ e = PyNone => v = -1
          /\ (e # PyNone /\ e.value \notin SeqSet(r)) => v = -1
          /\ (e # PyNone /\ e.value \in SeqSet(r))
                => /\ v \in 1..Len(r)
                   /\ r[v] = e.value
                   /\ \A j \in 1..(v - 1) : r[j] # e.value
          /\ v = -1 \/ v \in 1..Len(r)

\* The expected name occurs twice in retrieved, not at the top, and the rank
\* returned is that of its first occurrence.
RankOfFirstOccurrence ==
    /\ lastOp.op = "_calculate_rank"
    /\ lastOp.expected # PyNone
    /\ Len(lastOp.names) = 3
    /\ lastOp.names[1] # lastOp.expected.value
    /\ lastOp.names[2] = lastOp.expected.value
    /\ lastOp.names[3] = lastOp.expected.value
    /\ ret = PyInt(2)

(***************************************************************************)
(* Further properties of fusion (checked on SpecFusion).                   *)
(***************************************************************************)
\* C21: the fused score of a name of the candidate union that is not among
\* the sparse top-k has no sparse part, and the fused score of a name that
\* is not among the dense top-k has no dense part.
MissingComponentZero ==
    Retrieved
    => \A t \in Candidates(LastDense.ids, SparseIds(LastSparse, LastK)) :
          /\ t \notin SeqSet(SparseIds(LastSparse, LastK))
                => FusedNum(LastDense.ids, LastSparse, LastK, LastAlpha, t)
                       = LastAlpha * DenseNum(LastDense.ids, LastK, t)
                             * LastSparse.max_score
          /\ t \notin SeqSet(LastDense.ids)
                => FusedNum(LastDense.ids, LastSparse, LastK, LastAlpha, t)
                       = (100 - LastAlpha) * SparseRaw(LastSparse, t) * LastK

LastCandidates == Candidates(LastDense.ids, SparseIds(LastSparse, LastK))
LastFused(t) == ExpectedFused(lastOp.query, LastK, LastAlpha, t)

\* The names of a returned pair, in the order returned.
NameSeqOf(v) == [i \in DOMAIN ToolsOf(v) |-> ToolsOf(v)[i].name]

\* C22: the final list holds min(k, size of the union) different names of
\* the candidate union, in descending fused-score order, and no name left
\* out has a higher fused score than one taken; whatever the threshold, the
\* tools returned are a subsequence of that list, so they are at most k and
\* no tool is returned twice.
FinalListAndOrder ==
    Retrieved
    => \E final \in FinalLists(LastDense.ids, LastSparse, LastK, LastAlpha) :
          /\ ret = FilterAndShape(LastDense, final, LastThreshold)
          /\ Len(final) = Min(LastK, Cardinality(LastCandidates))
          /\ ~HasDuplicates(final)
          /\ SeqSet(final) \subseteq LastCandidates
          /\ \A t \in LastCandidates \ SeqSet(final), u \in SeqSet(final) :
                LastFused(t) <= LastFused(u)
          /\ \A i, j \in DOMAIN final :
                i < j => LastFused(final[i]) >= LastFused(final[j])
          /\ \A th \in ThresholdGrid \cup {LastThreshold} :
                LET out == FilterAndShape(LastDense, final, th)
                IN NameSeqOf(out)
                       = SelectSeq(final, LAMBDA n : n \in NamesOf(out))
          /\ Len(ToolsOf(ret)) <= LastK
          /\ ~HasDuplicates(NameSeqOf(ret))

\* The candidate union is larger than k = 2 and the call returned two tools.
CutToKReturned ==
    /\ Retrieved
    /\ LastK = 2
    /\ Cardinality(LastCandidates) > 2
    /\ Len(ToolsOf(ret)) = 2

(***************************************************************************)
(* Properties of the sparse scores (checked on SpecSparse).                *)
(***************************************************************************)
\* C23: without a ranker _retrieve_sparse_scores returns an empty dict;
\* otherwise every raw score is divided by the largest raw score, or by 1
\* when that is <= 0, every returned score lies in [0,1], and two returned
\* scores compare as their raw scores do.
SparseNormalized ==
    lastOp.op = "_retrieve_sparse_scores"
    => IF ~bm25.built THEN ret = PyDict(<<>>)
       ELSE LET raw == lastOp.raw
                m == MaxSeq(raw)
                d == IF m > 0 THEN m ELSE 1
                score(i) == ret.items[i][2]
            IN /\ Len(ret.items) = Len(raw)
               /\ \A i \in DOMAIN raw :
                     /\ score(i) = [num |-> raw[i], den |-> d]
                     /\ 0 <= score(i).num
                     /\ score(i).num <= score(i).den
               /\ \A i, j \in DOMAIN raw :
                     raw[i] < raw[j]
                         <=> score(i).num * score(j).den
                                 < score(j).num * score(i).den

(***************************************************************************)
(* Properties of the call arguments (checked on SpecOverride).             *)
(***************************************************************************)
\* The value a call uses: the argument when one is given, else the field.
Given(arg, field) == IF arg = NoArg THEN field ELSE arg

\* The returned value is one that k, alpha and threshold produce on the
\* current store; with k = 0 the store's search refuses the call.
ReturnedUnder(k, alpha, threshold) ==
    IF k < 1 THEN err = "ValueError" /\ ret = PyNone
    ELSE /\ err = "none"
         /\ \E final \in FinalLists(DenseOf(store, lastOp.query, k).ids,
                                    LastSparse, k, alpha) :
               ret = FilterAndShape(DenseOf(store, lastOp.query, k), final,
                                    threshold)

OverridesUsed ==
    Retrieved => ReturnedUnder(Given(lastOp.k, config.top_k),
                               Given(lastOp.alpha, config.alpha),
                               Given(lastOp.threshold, config.threshold))

\* C24: retrieve_hybrid computes its result with the argument k, alpha and
\* threshold whenever they are given (0 and 0.0 included) and with the
\* config field when they are None, and leaves the config as it was.
CallSiteOverrides ==
    /\ []OverridesUsed
    /\ [][ lastOp'.op = "retrieve_hybrid" => config' = config ]_vars

\* A call with k = 1, alpha = 0.0 and threshold = 0.0 returned a value that
\* the configured alpha 0.8 does not produce.
ZeroOverridesDecided ==
    /\ Retrieved
    /\ lastOp.k = 1
    /\ lastOp.alpha = 0
    /\ lastOp.threshold = 0
    /\ config.alpha = DefaultAlpha
    /\ err = "none"
    /\ \A final \in FinalLists(LastDense.ids, LastSparse, 1, config.alpha) :
          ret # FilterAndShape(LastDense, final, 0)

(***************************************************************************)
(* Properties of the selector (checked on SpecSkills).                     *)
(***************************************************************************)
\* Every record of the list is in the dict, without its "server" field,
\* under its server ("default" without one), and the dict holds as many
\* records as the list.
GroupsAll(v, tools) ==
    /\ IsServerMapping(v)
    /\ \A i \in DOMAIN tools :
          \E p \in DOMAIN v.items :
              /\ v.items[p][1] = ServerOf(tools[i])
              /\ \E j \in DOMAIN v.items[p][2] :
                    v.items[p][2][j] = PopServer(tools[i])
    /\ SumSeq([p \in DOMAIN v.items |-> Len(v.items[p][2])]) = Len(tools)

\* C25: retrieve_skills returns None when filter_tools is false, an empty
\* dict when the catalog is empty, and the whole catalog grouped by server,
\* without asking the model, when k >= the catalog size; a call leaves the
\* catalog's records, their server fields included, as they were.
SkillsShortCircuits ==
    [][ lastOp'.op = "retrieve_skills"
        => /\ tools_by_name' = tools_by_name
           /\ ~lastOp'.filter_tools => (ret' = PyNone /\ err' = "none")
           /\ (lastOp'.filter_tools /\ tools_by_name = <<>>)
                 => (ret' = PyDict(<<>>) /\ err' = "none")
           /\ (/\ lastOp'.filter_tools
               /\ tools_by_name # <<>>
               /\ lastOp'.k >= Len(tools_by_name))
                 => /\ err' = "none"
                    /\ lastOp'.response = NotAsked
                    /\ GroupsAll(ret', tools_by_name) ]_vars

\* A call with k = 10 returned a catalog of three records in two groups,
\* one of them "default", and the catalog still holds a server field.
WholeCatalogGrouped ==
    /\ lastOp.op = "retrieve_skills"
    /\ lastOp.filter_tools
    /\ lastOp.k = DefaultTopK
    /\ Len(tools_by_name) = 3
    /\ ret = GroupByServer(tools_by_name)
    /\ \E p \in DOMAIN ret.items : ret.items[p][1] = "default"
    /\ \E i \in DOMAIN tools_by_name : "server" \in DOMAIN tools_by_name[i]

\* The number of tools in a grouped result, over all its servers.
TotalTools(v) == SumSeq([p \in DOMAIN v.items |-> Len(v.items[p][2])])

\* C26: for any response of the model, every tool retrieve_skills(query, k)
\* returns is a record of the current catalog (without its server field,
\* under its server), and it returns at most k tools over all servers.
SkillsResultBound ==
    (/\ lastOp.op = "retrieve_skills"
     /\ err = "none"
     /\ ret.type = "dict")
    => /\ \A p \in DOMAIN ret.items : \A j \in DOMAIN ret.items[p][2] :
             \E i \in DOMAIN tools_by_name :
                 /\ ret.items[p][1] = ServerOf(tools_by_name[i])
                 /\ ret.items[p][2][j] = PopServer(tools_by_name[i])
       /\ TotalTools(ret) <= lastOp.k

(***************************************************************************)
(* Properties of failing mutations (checked on SpecFailure).               *)
(***************************************************************************)
\* C28: when populate_tools, add_tools or remove_tools has raised, the
\* ranker's corpus is exactly the documents now in the store, and there is
\* no ranker exactly when the store is empty.
ConsistentOnFailure ==
    (lastOp.op \in Mutations /\ err # "none")
    => /\ bm25.corpus = [i \in DOMAIN store |-> Split(store[i].document)]
       /\ (~bm25.built <=> store = <<>>)

(***************************************************************************)
(* Frame of a query (checked on Spec).                                     *)
(***************************************************************************)
\* C29: retrieve_hybrid, whatever its arguments and whether filtering is on
\* or off, leaves the store's records with their stored metadata, the ranker
\* and the config as they were.
QueriesAreReadOnly ==
    [][ lastOp'.op = "retrieve_hybrid"
        => (store' = store /\ bm25' = bm25 /\ config' = config) ]_vars

\* The same query ran twice in a row and returned a tool without its server
\* field, while the metadata stored under that tool's name still has it.
QueriedTwiceServerKept ==
    /\ Retrieved
    /\ lastOp.again
    /\ err = "none"
    /\ \E i \in DOMAIN ToolsOf(ret) :
          /\ "server" \notin DOMAIN ToolsOf(ret)[i]
          /\ "server" \in DOMAIN StoredTool(ToolsOf(ret)[i].name)

(***************************************************************************)
(* Determinism of a query (checked on SpecFusion).                         *)
(***************************************************************************)
\* C30: for a fixed store, ranker, query, k, alpha and threshold,
\* retrieve_hybrid returns the same tools in the same order whatever the
\* iteration order of the candidate set, also when candidates tie on the
\* fused score.
DeterministicUnderTies ==
    (Retrieved /\ err = "none")
    => \A final \in FinalLists(LastDense.ids, LastSparse, LastK, LastAlpha) :
          FilterAndShape(LastDense, final, LastThreshold) = ret

(***************************************************************************)
(* Queries between the steps of a mutation (checked on SpecInterleaved).   *)
(***************************************************************************)
\* The raw score of each stored document for the last query, from a ranker
\* built from the store as it is now.
OwnScores ==
    GetScores(BM25Okapi([i \in DOMAIN store |-> Split(store[i].document)]),
              Split(lastOp.query))

\* C27: a retrieve_hybrid that runs between the store update and the ranker
\* rebuild of an add_tools or remove_tools that changed the store sees an id
\* list and a ranker corpus of different sizes, and the zip of ids and
\* scores leaves a name without score or a score without name; a
\* retrieve_hybrid that runs when no mutation is in progress sees the ranker
\* of the current store.
NoIsolation ==
    Retrieved
    => IF pending = NoCall
       THEN bm25 = RebuildBm25(store)
       ELSE pending.before # store
            => /\ Len(GetAll(store).ids) # Len(bm25.corpus)
               /\ LET sp == RetrieveSparseScores(store, bm25, lastOp.query)
                  IN \/ Len(sp.names) < Len(GetAll(store).ids)
                     \/ Len(sp.raw) < Len(bm25.corpus)

\* A query ran after store.delete removed the first of two records and
\* before the rebuild: the remaining name is paired with the score of the
\* removed document, which is not the score of its own document.
PairedWithWrongName ==
    /\ Retrieved
    /\ pending # NoCall
    /\ pending.op = "remove_tools"
    /\ Len(store) = 1
    /\ Len(bm25.corpus) = 2
    /\ LET sp == RetrieveSparseScores(store, bm25, lastOp.query)
       IN /\ sp.names = GetAll(store).ids
          /\ sp.raw[1] # OwnScores[1]

====
